---- MODULE Spec2Model ----
(***************************************************************************)
(* ESP32 ADC sampling / moving-average pipeline (main/ADC.c).              *)
(*                                                                         *)
(* app_main runs init_adc and creates two FreeRTOS tasks that share the    *)
(* ring adc_buffer[] and its write cursor buffer_index:                    *)
(*   adc_sampling  : read ADC, convert, store at the cursor, advance it    *)
(*   adc_filtering : sum the filter_size slots before the cursor, divide   *)
(* The tasks take no lock; every access to shared memory is its own step.  *)
(***************************************************************************)
EXTENDS Integers, Sequences, FiniteSets

\* ---------------------------------------------------------------- bounds
\* The ring is checked at a reduced capacity (the source uses 256).
ModelCapacity == 6
\* Pushes a run performs when every interleaving of the two tasks is explored.
RacePushes == 5

\* ------------------------------------------------------ program constants
BUFFER_SIZE == ModelCapacity
filter_size == 5
NULL == "NULL"

\* Pushes a run performs when scans and pushes do not overlap: one full wrap
\* of the ring plus one push.
MaxPushes == BUFFER_SIZE + 1

\* Raw codes the converter can deliver (12 bit: 0..4095), by representatives.
RawCodes == {1500}
\* Results the calibration call can leave in `uint16_t voltage`.
MilliVolts == {1100, 65535}

\* ------------------------------------------------------- C integer types
ToUint8(x) == x % 256
ToUint16(x) == x % 65536
ToInt16(x) == IF (x % 65536) >= 32768 THEN (x % 65536) - 65536 ELSE x % 65536
\* 32-bit unsigned arithmetic (size_t on the ESP32) on an int operand x with
\* -2^31 <= x < 2^31: a negative x converts to 2^32 + x. TLC's integers stop at
\* 2^31 - 1, so 2^32 is written 2 * (2^31 - 1) + 2 and divided in two halves.
UDiv32(x, d) == IF x >= 0 THEN x \div d
                ELSE 2 * (2147483647 \div d) + ((2 * (2147483647 % d) + 2 + x) \div d)
UMod32(x, d) == IF x >= 0 THEN x % d
                ELSE (2 * (2147483647 % d) + 2 + x) % d

VARIABLES
    mainpc,           \* position of app_main / init_adc
    adc_handle,       \* ADC driver handle (NULL or the unit)
    adc_cali_handle,  \* calibration handle (NULL or the scheme)
    adc_buffer,       \* the ring as the other task sees it
    buffer_index,     \* write cursor
    spc,              \* position of adc_sampling ("none": task not created)
    raw, voltage,     \* locals of adc_sampling
    readOk,           \* outcome of this tick's adc_oneshot_read
    pending,          \* slot store issued but not yet visible to the reader
    fpc,              \* position of adc_filtering ("none": task not created)
    i, index, sum, filtered_value,   \* locals of adc_filtering
    pushed,           \* history: values of the pushes, in program order
    tickRing,         \* history: <<adc_buffer, buffer_index>> when the tick began
    scanIdx,          \* history: ring indices visited by the current scan
    scanVals,         \* history: values read by the current scan
    scanCursor,       \* history: cursor observed by the first read of the scan
    scanQuiet,        \* history: no push step has run since the scan began
    quietScans,       \* history: completed scans since the last push step (max 2)
    prevVals, prevOut \* history: the previous completed scan and its output

mainVars == <<mainpc, adc_handle, adc_cali_handle>>
ringVars == <<adc_buffer, buffer_index>>
samplerLocals == <<raw, voltage, readOk, pending>>
filterLocals == <<i, index, sum, filtered_value>>
pushHist == <<pushed, tickRing>>
scanHist == <<scanIdx, scanVals, scanCursor, scanQuiet, quietScans, prevVals, prevOut>>

vars == <<mainVars, ringVars, spc, samplerLocals, fpc, filterLocals, pushHist, scanHist>>

Slots == 0 .. (BUFFER_SIZE - 1)
NoStore == <<>>

\* A push is in progress: line 172 has run and the sampler has not yet reached
\* its log/delay (the slot store or the cursor store may still be outstanding).
PushInProgress == spc \in {"advance", "publish"}

Init ==
    /\ mainpc = "new_unit"
    /\ adc_handle = NULL
    /\ adc_cali_handle = NULL
    /\ adc_buffer = [s \in Slots |-> 0]
    /\ buffer_index = 0
    /\ spc = "none"
    /\ raw = 0
    /\ voltage = 0
    /\ readOk = TRUE
    /\ pending = NoStore
    /\ fpc = "none"
    /\ i = 0
    /\ index = 0
    /\ sum = 0
    /\ filtered_value = 0
    /\ pushed = <<>>
    /\ tickRing = <<[s \in Slots |-> 0], 0>>
    /\ scanIdx = <<>>
    /\ scanVals = <<>>
    /\ scanCursor = 0
    /\ scanQuiet = FALSE
    /\ quietScans = 0
    /\ prevVals = <<>>
    /\ prevOut = 0

\* ------------------------------------------------------------- app_main
\* init_adc step 1: adc_oneshot_new_unit; on failure init_adc returns NULL,
\* app_main stores it in adc_handle and returns.
InitUnit ==
    /\ mainpc = "new_unit"
    /\ \E ok \in BOOLEAN :
         IF ok THEN /\ adc_handle' = "ADC1"
                    /\ mainpc' = "config_channel"
               ELSE /\ adc_handle' = NULL
                    /\ mainpc' = "exit"
    /\ UNCHANGED <<adc_cali_handle, ringVars, spc, samplerLocals, fpc,
                   filterLocals, pushHist, scanHist>>

\* init_adc step 2: adc_oneshot_config_channel; failure as in step 1.
\* An init_adc that goes on after a failed channel configuration.
InitChannelGoesOn ==
    /\ mainpc = "config_channel"
    /\ \E ok \in BOOLEAN :
         adc_handle' = IF ok THEN adc_handle ELSE NULL
    /\ mainpc' = "calibration"
    /\ UNCHANGED <<adc_cali_handle, ringVars, spc, samplerLocals, fpc,
                   filterLocals, pushHist, scanHist>>
InitChannel ==
    /\ mainpc = "config_channel"
    /\ \E ok \in BOOLEAN :
         IF ok THEN /\ adc_handle' = adc_handle
                    /\ mainpc' = "calibration"
               ELSE /\ adc_handle' = NULL
                    /\ mainpc' = "exit"
    /\ UNCHANGED <<adc_cali_handle, ringVars, spc, samplerLocals, fpc,
                   filterLocals, pushHist, scanHist>>

\* init_adc step 3: adc_cali_create_scheme_curve_fitting; a failure only
\* clears the calibration handle. init_adc then returns adc_handle.
\* An init_adc for which a calibration failure is fatal, like the two before.
InitCalibrationFatal ==
    /\ mainpc = "calibration"
    /\ \E ok \in BOOLEAN :
         IF ok THEN /\ adc_cali_handle' = "CALI"
                    /\ adc_handle' = adc_handle
                    /\ mainpc' = "create_sampling"
               ELSE /\ adc_cali_handle' = NULL
                    /\ adc_handle' = NULL
                    /\ mainpc' = "exit"
    /\ UNCHANGED <<ringVars, spc, samplerLocals, fpc, filterLocals, pushHist, scanHist>>
InitCalibration ==
    /\ mainpc = "calibration"
    /\ \E ok \in BOOLEAN :
         adc_cali_handle' = IF ok THEN "CALI" ELSE NULL
    /\ mainpc' = "create_sampling"
    /\ UNCHANGED <<adc_handle, ringVars, spc, samplerLocals, fpc,
                   filterLocals, pushHist, scanHist>>

\* xTaskCreate(adc_sampling, ...): a failure is only logged.
CreateSampling ==
    /\ mainpc = "create_sampling"
    /\ \E ok \in BOOLEAN :
         spc' = IF ok THEN "read" ELSE "none"
    /\ mainpc' = "create_filtering"
    /\ UNCHANGED <<adc_handle, adc_cali_handle, ringVars, samplerLocals, fpc,
                   filterLocals, pushHist, scanHist>>

\* xTaskCreate(adc_filtering, ...): a failure is only logged.
CreateFiltering ==
    /\ mainpc = "create_filtering"
    /\ \E ok \in BOOLEAN :
         fpc' = IF ok THEN "reset" ELSE "none"
    /\ mainpc' = "done"
    /\ UNCHANGED <<adc_handle, adc_cali_handle, ringVars, spc, samplerLocals,
                   filterLocals, pushHist, scanHist>>

app_main == InitUnit \/ InitChannel \/ InitCalibration
              \/ CreateSampling \/ CreateFiltering

\* --------------------------------------------------------- adc_sampling
\* A step of the push (lines 172-173) ends the quiet period of the reader.
Disturb ==
    /\ scanQuiet' = FALSE
    /\ quietScans' = 0
    /\ prevVals' = <<>>
    /\ prevOut' = 0
    /\ UNCHANGED <<scanIdx, scanVals, scanCursor>>

\* Lines 157-161: raw = 0; voltage = 0; adc_oneshot_read(.., &raw). The return
\* value is not looked at; a failed read leaves raw at 0.
\* A sampler that ends its task when adc_oneshot_read fails.
SamplerReadCodeGivesUp ==
    /\ spc = "read"
    /\ \E ok \in BOOLEAN, code \in RawCodes :
         /\ readOk' = ok
         /\ raw' = IF ok THEN code ELSE 0
         /\ spc' = IF ok THEN "convert" ELSE "none"
    /\ voltage' = 0
    /\ UNCHANGED <<mainVars, ringVars, pending, fpc, filterLocals>>
SamplerReadCode ==
    /\ spc = "read"
    /\ \E ok \in BOOLEAN, code \in RawCodes :
         /\ readOk' = ok
         /\ raw' = IF ok THEN code ELSE 0
    /\ voltage' = 0
    /\ spc' = "convert"
    /\ UNCHANGED <<mainVars, ringVars, pending, fpc, filterLocals>>
\* The same step in a run of at most cap pushes, with its history.
SamplerRead(cap) ==
    /\ SamplerReadCode
    /\ Len(pushed) < cap
    /\ tickRing' = <<adc_buffer, buffer_index>>
    /\ UNCHANGED <<pushed, scanHist>>

\* Lines 164-169: calibrated conversion, or voltage = raw (int to uint16_t).
SamplerConvert ==
    /\ spc = "convert"
    /\ IF adc_cali_handle # NULL
         THEN \E mv \in MilliVolts : voltage' = mv
         ELSE voltage' = ToUint16(raw)
    /\ spc' = "store"
    /\ UNCHANGED <<mainVars, ringVars, raw, readOk, pending, fpc, filterLocals,
                   pushHist, scanHist>>

\* The slot line 172 writes, and the value it holds afterwards (uint16_t
\* voltage converted to the int16_t element).
StoreSlotAhead(cursor) == (cursor + 1) % BUFFER_SIZE
StoreSlot(cursor) == cursor
StoredReading(v) == ToInt16(v)
\* Line 173.
NextIndexShortWrap(cursor) == (cursor + 1) % (BUFFER_SIZE - 1)
\* A cursor that wraps one position too late (it reaches the capacity).
NextIndexPastEnd(cursor) == (cursor + 1) % (BUFFER_SIZE + 1)
NextIndex(cursor) == (cursor + 1) % BUFFER_SIZE

\* Line 172: adc_buffer[buffer_index] = voltage. adc_buffer is a plain array
\* shared with the reader without a lock, an atomic or a barrier, so nothing
\* orders this store with the cursor store of line 173 for the other task: it
\* reaches the reader either here or only after the cursor has advanced.
SamplerStoreCode ==
    /\ spc = "store"
    /\ \/ /\ adc_buffer' = [adc_buffer EXCEPT
                              ![StoreSlot(buffer_index)] = StoredReading(voltage)]
          /\ pending' = NoStore
       \/ /\ pending' = <<StoreSlot(buffer_index), StoredReading(voltage)>>
          /\ adc_buffer' = adc_buffer
    /\ spc' = "advance"
    /\ UNCHANGED <<mainVars, buffer_index, raw, voltage, readOk, fpc, filterLocals>>
SamplerStore ==
    /\ SamplerStoreCode
    /\ Disturb
    /\ UNCHANGED pushHist

\* Line 173: buffer_index = (buffer_index + 1) % BUFFER_SIZE.
SamplerAdvanceCode ==
    /\ spc = "advance"
    /\ buffer_index' = NextIndex(buffer_index)
    /\ spc' = IF pending = NoStore THEN "delay" ELSE "publish"
    /\ UNCHANGED <<mainVars, adc_buffer, samplerLocals, fpc, filterLocals>>
SamplerAdvance ==
    /\ SamplerAdvanceCode
    /\ pushed' = Append(pushed, StoredReading(voltage))
    /\ Disturb
    /\ UNCHANGED tickRing

\* The slot store of line 172, when it was delayed, becomes visible.
SamplerPublishAtCursor ==
    /\ spc = "publish"
    /\ adc_buffer' = [adc_buffer EXCEPT ![buffer_index] = pending[2]]
    /\ pending' = NoStore
    /\ spc' = "delay"
    /\ Disturb
    /\ UNCHANGED <<mainVars, buffer_index, raw, voltage, readOk, fpc,
                   filterLocals, pushHist>>
SamplerPublishCode ==
    /\ spc = "publish"
    /\ adc_buffer' = [adc_buffer EXCEPT ![pending[1]] = pending[2]]
    /\ pending' = NoStore
    /\ spc' = "delay"
    /\ UNCHANGED <<mainVars, buffer_index, raw, voltage, readOk, fpc, filterLocals>>
SamplerPublish ==
    /\ SamplerPublishCode
    /\ Disturb
    /\ UNCHANGED pushHist

\* Lines 176-179: log, vTaskDelay; the block-scoped locals end with the
\* iteration (lines 157-158 initialise them again).
SamplerDelay ==
    /\ spc = "delay"
    /\ spc' = "read"
    /\ raw' = 0
    /\ voltage' = 0
    /\ readOk' = TRUE
    /\ UNCHANGED <<mainVars, ringVars, pending, fpc, filterLocals, pushHist, scanHist>>

adc_sampling(cap) == SamplerRead(cap) \/ SamplerConvert \/ SamplerStore
                       \/ SamplerAdvance \/ SamplerPublish \/ SamplerDelay

\* -------------------------------------------------------- adc_filtering
\* Line 197, in size_t arithmetic.
ScanIndexFromCursor(cursor, k) == UMod32(cursor + BUFFER_SIZE - k, BUFFER_SIZE)
\* The operand of the % of line 197 without the + BUFFER_SIZE.
ScanOperandNoBias(cursor, k) == cursor - 1 - k
\* The operand of the % of line 197, computed in size_t.
ScanOperand(cursor, k) == cursor + BUFFER_SIZE - 1 - k
ScanIndex(cursor, k) == UMod32(ScanOperand(cursor, k), BUFFER_SIZE)
\* Line 200: the int sum is converted to size_t, divided by filter_size, and
\* the quotient (below 2^31) is stored in the int filtered_value.
Average(s) == UDiv32(s, filter_size)
\* Lines 196-199 for a window of k slots read with the cursor standing still.
ReadRecent(k) == [j \in 1 .. k |-> adc_buffer[ScanIndex(buffer_index, j - 1)]]

\* Lines 193, 196: sum = 0; i = 0.
FilterResetKeepsSum ==
    /\ fpc = "reset"
    /\ sum' = sum
    /\ i' = 0
    /\ fpc' = "index"
    /\ scanQuiet' = ~PushInProgress
    /\ UNCHANGED <<mainVars, ringVars, spc, samplerLocals, index, filtered_value,
                   pushHist, scanIdx, scanVals, scanCursor, quietScans, prevVals, prevOut>>
FilterResetCode ==
    /\ fpc = "reset"
    /\ sum' = 0
    /\ i' = 0
    /\ fpc' = "index"
    /\ UNCHANGED <<mainVars, ringVars, spc, samplerLocals, index, filtered_value>>
FilterReset ==
    /\ FilterResetCode
    /\ scanQuiet' = ~PushInProgress
    /\ UNCHANGED <<pushHist, scanIdx, scanVals, scanCursor, quietScans, prevVals, prevOut>>

\* Lines 196-197: i < filter_size; index is computed from the cursor as it is
\* read now (buffer_index is volatile: every iteration reads it again).
FilterIndexCode ==
    /\ fpc = "index"
    /\ i < filter_size
    /\ index' = ScanIndex(buffer_index, i)
    /\ fpc' = "load"
    /\ UNCHANGED <<mainVars, ringVars, spc, samplerLocals, i, sum, filtered_value>>
FilterIndex ==
    /\ FilterIndexCode
    /\ scanCursor' = IF i = 0 THEN buffer_index ELSE scanCursor
    /\ UNCHANGED <<pushHist, scanIdx, scanVals, scanQuiet, quietScans, prevVals, prevOut>>

\* Line 198 and i++: sum += adc_buffer[index] (five int16_t values cannot
\* overflow the int). index is scoped to the loop body.
\* A load that consumes the slot it reads (a second writer of the ring).
FilterLoadCodeConsumes ==
    /\ fpc = "load"
    /\ sum' = sum + adc_buffer[index]
    /\ i' = i + 1
    /\ index' = 0
    /\ fpc' = "index"
    /\ adc_buffer' = [adc_buffer EXCEPT ![index] = 0]
    /\ UNCHANGED <<mainVars, buffer_index, spc, samplerLocals, filtered_value>>
FilterLoadCode ==
    /\ fpc = "load"
    /\ sum' = sum + adc_buffer[index]
    /\ i' = i + 1
    /\ index' = 0
    /\ fpc' = "index"
    /\ UNCHANGED <<mainVars, ringVars, spc, samplerLocals, filtered_value>>
FilterLoad ==
    /\ FilterLoadCode
    /\ scanIdx' = Append(scanIdx, index)
    /\ scanVals' = Append(scanVals, adc_buffer[index])
    /\ UNCHANGED <<pushHist, scanCursor, scanQuiet, quietScans, prevVals, prevOut>>

\* Line 200, on loop exit: filtered_value = sum / filter_size.
FilterAverageCode ==
    /\ fpc = "index"
    /\ ~(i < filter_size)
    /\ filtered_value' = Average(sum)
    /\ fpc' = "delay"
    /\ UNCHANGED <<mainVars, ringVars, spc, samplerLocals, i, index, sum>>
FilterAverage ==
    /\ FilterAverageCode
    /\ quietScans' = IF scanQuiet THEN (IF quietScans < 2 THEN quietScans + 1 ELSE 2)
                                  ELSE 0
    /\ UNCHANGED <<pushHist, scanIdx, scanVals, scanCursor, scanQuiet, prevVals, prevOut>>

\* Lines 203-206: log the filtered value, vTaskDelay, next iteration. After the
\* log filtered_value is dead (line 200 assigns it before its next read), so
\* the model forgets it here.
FilterDelayCode ==
    /\ fpc = "delay"
    /\ fpc' = "reset"
    /\ filtered_value' = 0
    /\ UNCHANGED <<mainVars, ringVars, spc, samplerLocals, i, index, sum>>
FilterDelay ==
    /\ FilterDelayCode
    /\ prevVals' = IF quietScans > 0 THEN scanVals ELSE <<>>
    /\ prevOut' = IF quietScans > 0 THEN filtered_value ELSE 0
    /\ scanIdx' = <<>>
    /\ scanVals' = <<>>
    /\ scanCursor' = 0
    /\ scanQuiet' = FALSE
    /\ UNCHANGED <<pushHist, quietScans>>

adc_filtering == FilterReset \/ FilterIndex \/ FilterLoad
                   \/ FilterAverage \/ FilterDelay

\* ------------------------------------------------------- specifications
\* Both tasks run on their own (no core affinity, no lock): any interleaving.
Next == app_main \/ adc_sampling(RacePushes) \/ adc_filtering

Spec == Init /\ [][Next]_vars

\* The schedules in which a window scan and a push never overlap: the filter
\* runs between the pushes, the sampler between the scans.
Scanning == fpc \in {"index", "load"}
NextQuiet ==
    \/ app_main
    \/ (~Scanning /\ adc_sampling(MaxPushes))
    \/ (~PushInProgress /\ adc_filtering)

SpecQuiet == Init /\ [][NextQuiet]_vars

\* Runs that are not limited to a number of pushes: the same steps without
\* the history (which grows with every push), so both loops go on for ever.
NoHistory == UNCHANGED <<pushHist, scanHist>>
\* What the calibration call delivers in these runs.
ForeverVolts == {1100}

adc_sampling_forever ==
    \/ (SamplerReadCode /\ NoHistory)
    \/ (SamplerConvert /\ (adc_cali_handle # NULL => voltage' \in ForeverVolts))
    \/ (SamplerStoreCode /\ NoHistory)
    \/ (SamplerAdvanceCode /\ NoHistory)
    \/ (SamplerPublishCode /\ NoHistory)
    \/ SamplerDelay

adc_filtering_forever ==
    \/ (FilterResetCode /\ NoHistory)
    \/ (FilterIndexCode /\ NoHistory)
    \/ (FilterLoadCode /\ NoHistory)
    \/ (FilterAverageCode /\ NoHistory)
    \/ (FilterDelayCode /\ NoHistory)

NextForever == app_main \/ adc_sampling_forever \/ adc_filtering_forever

\* Each task sleeps in vTaskDelay at the end of every iteration and is woken
\* by the tick, so the scheduler runs each of them again and again: weak
\* fairness for each task.
SpecFair ==
    /\ Init
    /\ [][NextForever]_vars
    /\ WF_vars(app_main)
    /\ WF_vars(adc_sampling_forever)
    /\ WF_vars(adc_filtering_forever)

\* ---------------------------------------------------------------- claims
RECURSIVE SeqSum(_)
SeqSum(q) == IF q = <<>> THEN 0 ELSE q[1] + SeqSum(Tail(q))
\* Quotient of a by b > 0 truncated toward zero.
TruncDiv(a, b) == IF a >= 0 THEN a \div b ELSE -((-a) \div b)
\* (cursor - 1 - k) mod capacity.
Behind(cursor, k) == (cursor + 2 * BUFFER_SIZE - 1 - k) % BUFFER_SIZE

\* C1: a window scan visits the indices (c-1-k) mod capacity, k = 0 .. window-1,
\* of the cursor value c it observed when it began, whatever pushes happen
\* while it runs.
C1_ScanKeepsStartCursor ==
    \A k \in 1 .. Len(scanIdx) : scanIdx[k] = Behind(scanCursor, k - 1)

\* C2: a tick whose acquisition failed pushes nothing: when it ends, the ring
\* and the cursor are as they were when it began.
C2_FailedTickPushesNothing ==
    (spc = "delay" /\ ~readOk) => <<adc_buffer, buffer_index>> = tickRing

\* C3: the emitted value is the sum of the window divided by window_size,
\* truncated toward zero, also for a negative sum.
C3_AverageTruncatesTowardZero ==
    (fpc = "delay") =>
        /\ sum = SeqSum(scanVals)
        /\ filtered_value = TruncDiv(SeqSum(scanVals), filter_size)

\* The values of the last k pushes, most recent first.
LastPushes(k) == [j \in 1 .. k |-> pushed[Len(pushed) + 1 - j]]
\* The slot push number n writes.
SlotOfPush(n) == (n - 1) % BUFFER_SIZE

\* C4: for every k <= capacity, after at least k pushes a window of size k read
\* with no push in progress holds the values of the last k pushes, each once,
\* wrapped or not; the scan the filter runs (k = filter_size) reads exactly these.
C4_WindowIsLastPushes ==
    /\ ~PushInProgress =>
           \A k \in 1 .. BUFFER_SIZE :
               Len(pushed) >= k => ReadRecent(k) = LastPushes(k)
    /\ (fpc = "delay" /\ scanQuiet /\ Len(pushed) >= filter_size) =>
           /\ scanVals = LastPushes(filter_size)
           /\ \A a, b \in 1 .. Len(scanIdx) : a # b => scanIdx[a] # scanIdx[b]
           /\ \A a \in 1 .. Len(scanIdx) : scanIdx[a] = SlotOfPush(Len(pushed) + 1 - a)

C4_Witness ==
    /\ fpc = "delay"
    /\ scanQuiet
    /\ Len(pushed) = BUFFER_SIZE + 1
    /\ Len(scanVals) = filter_size
    /\ scanVals[1] # scanVals[2]
    /\ scanIdx[1] = 0
    /\ scanIdx[2] = BUFFER_SIZE - 1

\* C5: the cursor is back at its initial value after exactly capacity pushes
\* (it is the number of pushes mod capacity); the value of push n is in the slot
\* just before the cursor right after push n and stays in its slot until push
\* n + capacity stores over it.
C5_WrapAround ==
    /\ buffer_index = Len(pushed) % BUFFER_SIZE
    /\ Len(pushed) = BUFFER_SIZE => buffer_index = 0
    /\ \A n \in 1 .. Len(pushed) :
           ( /\ n > Len(pushed) - BUFFER_SIZE
             /\ ~(n = Len(pushed) /\ spc = "publish")
             /\ ~(n = Len(pushed) - BUFFER_SIZE + 1 /\ spc = "advance") )
           => adc_buffer[SlotOfPush(n)] = pushed[n]
    /\ (Len(pushed) > 0 /\ spc # "publish") =>
           adc_buffer[Behind(buffer_index, 0)] = pushed[Len(pushed)]

C5_Witness ==
    /\ Len(pushed) = BUFFER_SIZE + 1
    /\ spc = "delay"
    /\ buffer_index = 1
    /\ pushed[1] # pushed[BUFFER_SIZE + 1]
    /\ adc_buffer[0] = pushed[BUFFER_SIZE + 1]
    /\ adc_buffer[1] = pushed[2]

\* C6: a push stores the reading in the slot the cursor indexed when the push
\* began and sets the cursor to (cursor + 1) mod capacity; no other slot changes;
\* every step of the push can be taken whatever the filter is doing.
C6_PushEffect ==
    /\ (spc = "delay") =>
           /\ adc_buffer = [tickRing[1] EXCEPT ![tickRing[2]] = StoredReading(voltage)]
           /\ buffer_index = (tickRing[2] + 1) % BUFFER_SIZE
    /\ (spc = "store") => ENABLED SamplerStore
    /\ (spc = "advance") => ENABLED SamplerAdvance
    /\ (spc = "publish") => ENABLED SamplerPublish

C6_Witness ==
    /\ spc = "delay"
    /\ Scanning
    /\ tickRing[2] = BUFFER_SIZE - 1
    /\ buffer_index = 0
    /\ adc_buffer[BUFFER_SIZE - 1] # tickRing[1][BUFFER_SIZE - 1]

\* The values line 172 has stored so far (the push in progress included).
StoredSoFar ==
    { pushed[n] : n \in 1 .. Len(pushed) }
        \cup (IF spc = "advance" THEN {StoredReading(voltage)} ELSE {})

\* C7 as stated: every value a scan reads is a value some push stored.
C7_ScanReadsPushedValues ==
    \A k \in 1 .. Len(scanVals) : scanVals[k] \in StoredSoFar

\* The values the pushes have made visible in slot s: those of the finished
\* pushes to s, and that of a push in progress whose store has landed in s.
SlotValues(s) ==
    { pushed[n] : n \in { m \in 1 .. Len(pushed) :
                            /\ SlotOfPush(m) = s
                            /\ ~(m = Len(pushed) /\ spc = "publish") } }
        \cup (IF spc = "advance" /\ pending = NoStore /\ StoreSlot(buffer_index) = s
                 THEN {StoredReading(voltage)} ELSE {})
ReadableFrom(s) == IF SlotValues(s) = {} THEN {0} ELSE SlotValues(s)

\* C7 (amended): every value a scan reads from a slot is a value some push
\* stored in that slot, whole, or the initial zero of a slot no push has
\* written yet.
C7_ScanReadsStoredOrInitial ==
    [][ (fpc = "load" /\ fpc' = "index") =>
            scanVals'[Len(scanVals')] \in ReadableFrom(index) ]_vars

C7_Witness ==
    /\ fpc = "delay"
    /\ ~scanQuiet
    /\ Len(scanVals) = filter_size
    /\ scanIdx[1] = scanIdx[2]
    /\ scanVals[1] = 0
    /\ scanVals[2] # 0
    /\ scanVals[filter_size] = 0

\* C8: whenever the cursor shows a value a push produced, the slot just before
\* it already holds that push's value.
C8_SlotVisibleBeforeCursor ==
    (Len(pushed) > 0) => adc_buffer[Behind(buffer_index, 0)] = pushed[Len(pushed)]

\* init_adc has returned a handle and left calibration unavailable.
Started == mainpc \in {"create_sampling", "create_filtering", "done"}
RawMode == Started /\ adc_cali_handle = NULL

\* C9: with calibration unavailable every tick stores the raw code unconverted,
\* for each raw code 0 .. 4095; the mode is fixed once init_adc has returned and
\* every push of the run is made in that mode.
C9_RawModeStoresRawCode ==
    /\ [] ( /\ (RawMode /\ spc \in {"store", "advance", "publish", "delay"}) =>
                  /\ voltage = raw
                  /\ StoredReading(voltage) = raw
            /\ (RawMode /\ spc = "delay") => adc_buffer[tickRing[2]] = raw
            /\ RawMode => \A n \in 1 .. Len(pushed) : pushed[n] \in RawCodes \cup {0}
            /\ (Started /\ ~RawMode) =>
                  \A n \in 1 .. Len(pushed) :
                      pushed[n] \in { StoredReading(mv) : mv \in MilliVolts }
            /\ (mainpc = "create_sampling" /\ RawMode) =>
                  \A code \in 0 .. 4095 : StoredReading(ToUint16(code)) = code )
    /\ [][ Started => adc_cali_handle' = adc_cali_handle ]_vars

C9_Witness ==
    /\ RawMode
    /\ spc = "delay"
    /\ raw = 1500
    /\ Len(pushed) = 2
    /\ pushed[1] = 1500
    /\ adc_buffer[1] = 1500

\* C10: two scans made one after the other with no push step between them or
\* during them read the same values and give the same filtered value.
C10_QuietScansAgree ==
    (fpc = "delay" /\ quietScans = 2) =>
        /\ scanVals = prevVals
        /\ filtered_value = prevOut

C10_Witness ==
    /\ fpc = "delay"
    /\ quietScans = 2
    /\ Len(prevVals) = filter_size
    /\ filtered_value # 0
    /\ Len(pushed) = BUFFER_SIZE + 1

\* C11: the ring has a single writer. Every step of adc_filtering leaves
\* adc_buffer and buffer_index unchanged, and every step that changes either
\* of them is a step of the push (lines 172-173) of adc_sampling.
C11_SingleWriter ==
    [][ /\ (fpc' # fpc \/ filterLocals' # filterLocals) => ringVars' = ringVars
        /\ (ringVars' # ringVars) =>
              /\ spc \in {"store", "advance", "publish"}
              /\ spc' # spc
              /\ fpc' = fpc
              /\ filterLocals' = filterLocals ]_vars

\* A scan has just read its last slot, from a ring that pushes have written.
C11_Witness ==
    /\ fpc = "index"
    /\ i = filter_size
    /\ sum # 0
    /\ buffer_index = 3

\* C12: buffer_index is always in 0 .. BUFFER_SIZE - 1; it is 0 until the
\* sampler runs, and no number of pushes, interleaved in any way with the
\* scans, takes it to BUFFER_SIZE or beyond.
C12_CursorInRange ==
    /\ buffer_index \in Slots
    /\ (spc = "none") => (buffer_index = 0)

\* The push into the last slot has just wrapped the cursor to 0.
C12_Witness ==
    /\ spc = "delay"
    /\ buffer_index = 0
    /\ adc_buffer[BUFFER_SIZE - 1] # 0
    /\ adc_buffer[0] # 0

\* C13: neither loop waits for the other and neither ends. A started task
\* always has a step it can take, whatever the position of the other task;
\* under fair scheduling every tick of adc_sampling, a tick whose read failed
\* included, reaches its vTaskDelay and the next tick begins; every scan of
\* adc_filtering emits its value and the next scan begins.
C13_LoopsRunForEver ==
    /\ [](spc # "none" => ENABLED adc_sampling_forever)
    /\ [](fpc # "none" => ENABLED adc_filtering_forever)
    /\ (spc = "read") ~> (spc = "delay")
    /\ (spc = "convert" /\ ~readOk) ~> (spc = "delay")
    /\ (spc = "delay") ~> (spc = "read")
    /\ (fpc = "reset") ~> (fpc = "delay")
    /\ (fpc = "delay") ~> (fpc = "reset")

\* Both tasks run; a tick whose read failed is complete, after the cursor has
\* wrapped, while a scan has emitted its value.
C13_Witness ==
    /\ mainpc = "done"
    /\ spc = "delay"
    /\ ~readOk
    /\ buffer_index = 0
    /\ adc_buffer[1] # 0
    /\ fpc = "delay"

\* C14: all slots start at zero, and a scan made after fewer than
\* filter_size pushes, with no push under way, reads zero at every position
\* no push has written and emits the sum of the pushed values divided by
\* filter_size (truncated toward zero).
C14_EarlyScanAveragesPushes ==
    /\ (spc = "none") => (\A s \in Slots : adc_buffer[s] = 0)
    /\ (fpc = "delay" /\ scanQuiet /\ Len(pushed) < filter_size) =>
          /\ \A j \in 1 .. filter_size : (j > Len(pushed)) => (scanVals[j] = 0)
          /\ filtered_value = TruncDiv(SeqSum(pushed), filter_size)

\* C15: a calibration failure is not fatal. The calibration step always
\* ends with init_adc returning the non-null unit handle, whether the scheme
\* was created or not; after a failure app_main does not return early but
\* goes on to both xTaskCreate calls, each of which can start its loop, and
\* a loop that runs stores the raw code itself.
C15_CalibrationFailureNotFatal ==
    /\ [][(mainpc = "calibration") =>
             /\ adc_handle # NULL
             /\ adc_handle' = adc_handle
             /\ mainpc' = "create_sampling"]_vars
    /\ [](RawMode =>
             /\ adc_handle # NULL
             /\ mainpc # "exit"
             /\ (mainpc = "create_sampling") => ENABLED (CreateSampling /\ spc' = "read")
             /\ (mainpc = "create_filtering") => ENABLED (CreateFiltering /\ fpc' = "reset")
             /\ (spc \in {"store", "advance"}) => (voltage = ToUint16(raw)))

\* Without calibration both loops run: the sampler has stored a raw code and
\* a scan has emitted a value.
C15_Witness ==
    /\ mainpc = "done"
    /\ adc_cali_handle = NULL
    /\ adc_handle # NULL
    /\ spc = "delay"
    /\ readOk
    /\ pushed = <<raw>>
    /\ raw \in RawCodes
    /\ fpc = "delay"
    /\ scanIdx # <<>>

\* C16: every index adc_filtering computes is in 0 .. BUFFER_SIZE - 1 and
\* the operand of its % is never negative (no unsigned wrap-around), for
\* every cursor it can observe, cursor 0 and a cursor read during a push
\* included; adc_sampling only ever writes at an index in 0 .. BUFFER_SIZE - 1.
C16_IndicesInRange ==
    /\ \A c \in Slots, k \in 0 .. (filter_size - 1) :
          /\ ScanOperand(c, k) >= 0
          /\ ScanIndex(c, k) \in Slots
    /\ (fpc = "index" /\ i < filter_size) =>
          /\ ScanOperand(buffer_index, i) >= 0
          /\ ScanIndex(buffer_index, i) \in Slots
    /\ (fpc = "load") => (index \in Slots)
    /\ (spc = "store") => (StoreSlot(buffer_index) \in Slots)
    /\ (pending # NoStore) => (pending[1] \in Slots)

\* The last index of a scan has been computed from cursor 0 while a push is
\* between its store and its cursor update.
C16_Witness ==
    /\ fpc = "load"
    /\ i = filter_size - 1
    /\ buffer_index = 0
    /\ index = BUFFER_SIZE - filter_size
    /\ spc = "advance"
    /\ adc_buffer[BUFFER_SIZE - 1] # 0

\* C17: the loops start only after the hardware set-up succeeded. When the
\* unit or the channel set-up fails, init_adc returns NULL and app_main
\* returns: no task exists, nothing is pushed or scanned, the ring stays all
\* zero with cursor 0, and no further step is taken. A task exists, and a
\* push or a scan is made, only after init_adc has returned a non-null handle.
C17_NoLoopWithoutHardware ==
    /\ [](mainpc = "exit" =>
             /\ adc_handle = NULL
             /\ spc = "none" /\ fpc = "none"
             /\ pushed = <<>> /\ scanIdx = <<>>
             /\ buffer_index = 0
             /\ \A s \in Slots : adc_buffer[s] = 0)
    /\ []((spc # "none" \/ fpc # "none" \/ pushed # <<>> \/ scanIdx # <<>>) =>
             /\ adc_handle # NULL
             /\ mainpc \in {"create_filtering", "done"})
    /\ [](~Started => (spc = "none" /\ fpc = "none" /\ buffer_index = 0))
    /\ [][mainpc # "exit"]_vars

\* init_adc has failed and app_main has returned.
C17_Witness ==
    /\ mainpc = "exit"
    /\ adc_handle = NULL
    /\ spc = "none"
    /\ fpc = "none"
====
